---- MODULE Spec2Model ----
(***************************************************************************)
(* A model of src/server.py: the three Jira tool handlers                  *)
(* (jira_get_issues, jira_add_comment, jira_close_issue), the two HTTP     *)
(* helpers they call (jira_get, jira_post), the error formatter            *)
(* (handle_error) and the rich-text flattener (get_text).                  *)
(*                                                                         *)
(* Python values are modelled as follows.                                  *)
(*   str    a sequence of fragments (TLA+ strings); the str is their       *)
(*          concatenation.  Literals of the source are one fragment each,  *)
(*          data (names, texts) is one fragment per character.             *)
(*   None / optional  a record with a BOOLEAN field saying "present".      *)
(*   dict   a record whose fields are the keys present (DOMAIN d).         *)
(***************************************************************************)
EXTENDS Integers, Sequences, FiniteSets, TLC

\* ------------------------------------------------------------------ bounds
\* Tool invocations in flight at once.
NumInvocations == 2
\* Longest transition list the tracker holds under SpecClose.
MaxTransitions == 3
\* Most nodes of a rich-text tree under SpecText.
MaxNodes == 4

\* ------------------------------------------------------------------ strings
Uppers == <<"A","B","C","D","E","F","G","H","I","J","K","L","M",
            "N","O","P","Q","R","S","T","U","V","W","X","Y","Z">>
Lowers == <<"a","b","c","d","e","f","g","h","i","j","k","l","m",
            "n","o","p","q","r","s","t","u","v","w","x","y","z">>

\* str.lower() on one character (the ASCII letters; others are kept).
LowerChar(c) ==
  IF \E k \in DOMAIN Uppers : Uppers[k] = c
  THEN Lowers[CHOOSE k \in DOMAIN Uppers : Uppers[k] = c]
  ELSE c

\* str.lower(): every character lowered, length and order kept.
Lower(s) == [k \in DOMAIN s |-> LowerChar(s[k])]

\* The list literal of jira_close_issue: ["done", "closed", "resolved"].
ClosingNames ==
  << <<"d","o","n","e">>,
     <<"c","l","o","s","e","d">>,
     <<"r","e","s","o","l","v","e","d">> >>

\* x in list
InList(x, list) == \E k \in DOMAIN list : list[k] = x

\* ------------------------------------------------------------------ selection
None == [some |-> FALSE]
Some(v) == [some |-> TRUE, v |-> v]

\* The generator's condition: t["name"].lower() in ["done","closed","resolved"].
IsClosing(t) == InList(Lower(t.name), ClosingNames)

\* As ClosingTransition, but the last match wins.
ClosingTransition_last(transitions) ==
  IF \E k \in DOMAIN transitions : IsClosing(transitions[k])
  THEN LET last == CHOOSE k \in DOMAIN transitions :
                     /\ IsClosing(transitions[k])
                     /\ \A j \in (k+1)..Len(transitions) : ~IsClosing(transitions[j])
       IN  Some(transitions[last])
  ELSE None

\* next((t for t in transitions if ...), None): the first element, in list
\* order, that satisfies the condition; None when there is none.
ClosingTransition(transitions) ==
  IF \E k \in DOMAIN transitions : IsClosing(transitions[k])
  THEN LET first == CHOOSE k \in DOMAIN transitions :
                      /\ IsClosing(transitions[k])
                      /\ \A j \in 1..(k-1) : ~IsClosing(transitions[j])
       IN  Some(transitions[first])
  ELSE None

\* available = [t["name"] for t in transitions]
Available(transitions) == [k \in DOMAIN transitions |-> transitions[k].name]

\* ------------------------------------------------------------------ dicts
\* The empty dict {}.
EmptyDict == [k \in {} |-> k]

\* d.get(k, default)
DictGet(d, k, default) == IF k \in DOMAIN d THEN d[k] ELSE default

\* s1 + s2 + ... : string concatenation
Concat(parts) ==
  LET RECURSIVE cat(_)
      cat(k) == IF k > Len(parts) THEN <<>> ELSE parts[k] \o cat(k + 1)
  IN  cat(1)

\* ------------------------------------------------------------------ HTTP layer
\* What the transport hands back to client.get / client.post.
TimeoutReply == [net |-> "timeout"]
NetErrorReply == [net |-> "error"]
Response(status, content) == [net |-> "response", status |-> status, content |-> content]

\* Response bodies: no bytes, a JSON document, or bytes that are not JSON.
EmptyBody == [raw |-> "empty"]
JsonBody(v) == [raw |-> "json", value |-> v]
TextBody(s) == [raw |-> "text", text |-> s]

\* r.text.  The answers with a non-2xx status carry plain text or nothing;
\* the text of a JSON document is not spelled out.
BodyText(content) ==
  IF content.raw = "text" THEN content.text
  ELSE IF content.raw = "json" THEN <<"<json>">>
  ELSE <<>>

\* Exceptions, all subclasses of Exception; msg is str(e).
HTTPStatusError(status, text) ==
  [type |-> "HTTPStatusError", status |-> status, text |-> text,
   msg |-> <<"Client error for url">>]
TimeoutException == [type |-> "TimeoutException", msg |-> <<>>]
ConnectError == [type |-> "ConnectError", msg |-> <<"All connection attempts failed">>]
JSONDecodeError == [type |-> "JSONDecodeError", msg |-> <<"Expecting value: line 1 column 1 (char 0)">>]

\* The outcome of a call: it returns a value or raises.
Return(v) == [ok |-> TRUE, value |-> v]
Raise(e) == [ok |-> FALSE, exc |-> e]

\* r.raise_for_status() passes exactly the 2xx responses.
IsSuccess(status) == status >= 200 /\ status <= 299

\* r.json(): the parsed document, or JSONDecodeError on anything else
\* (no bytes at all included).
ParseJson(content) ==
  IF content.raw = "json" THEN Return(content.value) ELSE Raise(JSONDecodeError)

\* jira_get, given what the transport answered.
jira_get(reply) ==
  IF reply.net = "timeout" THEN Raise(TimeoutException)
  ELSE IF reply.net = "error" THEN Raise(ConnectError)
  ELSE IF ~IsSuccess(reply.status)
       THEN Raise(HTTPStatusError(reply.status, BodyText(reply.content)))
  ELSE ParseJson(reply.content)

\* jira_post, given what the transport answered:
\* return r.json() if r.content else {}
jira_post(reply) ==
  IF reply.net = "timeout" THEN Raise(TimeoutException)
  ELSE IF reply.net = "error" THEN Raise(ConnectError)
  ELSE IF ~IsSuccess(reply.status)
       THEN Raise(HTTPStatusError(reply.status, BodyText(reply.content)))
  ELSE IF reply.content.raw = "empty" THEN Return(EmptyDict)
  ELSE ParseJson(reply.content)

\* str(n) for a non-negative integer.
Digits == <<"0","1","2","3","4","5","6","7","8","9">>
RECURSIVE IntToStr(_)
IntToStr(n) ==
  IF n < 10 THEN <<Digits[n + 1]>>
  ELSE IntToStr(n \div 10) \o <<Digits[(n % 10) + 1]>>

handle_error_no_timeout_branch(e) ==
  IF e.type = "HTTPStatusError"
  THEN Concat(<< <<"Error:", " Jira API returned ">>, IntToStr(e.status), <<": ">>, e.text >>)
  ELSE <<"Error:", " ">> \o e.msg

\* handle_error.  The literal "Error: ..." of each branch is written as the
\* fragment "Error:" followed by the rest of the literal.
handle_error(e) ==
  IF e.type = "HTTPStatusError"
  THEN Concat(<< <<"Error:", " Jira API returned ">>, IntToStr(e.status), <<": ">>, e.text >>)
  ELSE IF e.type = "TimeoutException"
  THEN <<"Error:", " Request timed out. Please try again.">>
  ELSE <<"Error:", " ">> \o e.msg

Catches_only_status(e) == e.type = "HTTPStatusError"

\* "except Exception": the exception classes the handlers' except clause
\* catches.
Catches(e) ==
  e.type \in {"HTTPStatusError", "TimeoutException", "ConnectError",
              "JSONDecodeError", "KeyError", "AttributeError", "TypeError"}

\* What a handler returns: json.dumps(obj), or a plain string.
Json(obj) == [fmt |-> "json", obj |-> obj]
Plain(text) == [fmt |-> "text", text |-> text]
NoResult == [fmt |-> "none"]

\* ------------------------------------------------------------------ get_text
\* JSON values a description can hold: null, a string, an object.  An object
\* is a record whose keys are among "type", "text" and "content".
JNull == [j |-> "null"]
JStr(s) == [j |-> "str", s |-> s]
JDict(d) == [j |-> "dict", d |-> d]

AttributeError == [type |-> "AttributeError", msg |-> <<"object has no attribute 'get'">>]

\* Python truthiness, "not node": None, "" and {} are false.
Falsy(node) ==
  \/ node.j = "null"
  \/ node.j = "str" /\ node.s = <<>>
  \/ node.j = "dict" /\ DOMAIN node.d = {}

\* The characters str.strip() removes.
Whitespace == {" ", "\t", "\n", "\r"}

\* s.strip()
RECURSIVE LStrip(_)
LStrip(s) == IF s # <<>> /\ Head(s) \in Whitespace THEN LStrip(Tail(s)) ELSE s
RECURSIVE RStrip(_)
RStrip(s) ==
  IF s # <<>> /\ s[Len(s)] \in Whitespace THEN RStrip(SubSeq(s, 1, Len(s) - 1)) ELSE s
Strip(s) == RStrip(LStrip(s))

\* sep.join(items)
RECURSIVE Join(_, _)
Join(sep, items) ==
  IF items = <<>> THEN <<>>
  ELSE IF Len(items) = 1 THEN items[1]
  ELSE items[1] \o sep \o Join(sep, Tail(items))

\* As get_text, without its first line "if not node: return ''".
RECURSIVE get_text_unguarded(_)
get_text_unguarded(node) ==
  IF node.j = "str" THEN Return(node.s)
  ELSE IF node.j # "dict" THEN Raise(AttributeError)
  ELSE IF "type" \in DOMAIN node.d /\ node.d.type = <<"text">>
       THEN Return(DictGet(node.d, "text", <<>>))
  ELSE LET content == DictGet(node.d, "content", <<>>)
           parts == [k \in DOMAIN content |-> get_text_unguarded(content[k])]
       IN  IF \E k \in DOMAIN parts : ~parts[k].ok
           THEN parts[CHOOSE k \in DOMAIN parts :
                        ~parts[k].ok /\ \A m \in 1..(k-1) : parts[m].ok]
           ELSE Return(Strip(Join(<<" ">>, [k \in DOMAIN parts |-> parts[k].value])))

\* As get_text, without the .strip() of its last line.
RECURSIVE get_text_unstripped(_)
get_text_unstripped(node) ==
  IF Falsy(node) THEN Return(<<>>)
  ELSE IF node.j = "str" THEN Return(node.s)
  ELSE IF node.j # "dict" THEN Raise(AttributeError)
  ELSE IF "type" \in DOMAIN node.d /\ node.d.type = <<"text">>
       THEN Return(DictGet(node.d, "text", <<>>))
  ELSE LET content == DictGet(node.d, "content", <<>>)
           parts == [k \in DOMAIN content |-> get_text_unstripped(content[k])]
       IN  IF \E k \in DOMAIN parts : ~parts[k].ok
           THEN parts[CHOOSE k \in DOMAIN parts :
                        ~parts[k].ok /\ \A m \in 1..(k-1) : parts[m].ok]
           ELSE Return(Join(<<" ">>, [k \in DOMAIN parts |-> parts[k].value]))

RECURSIVE get_text(_)
get_text(node) ==
  IF Falsy(node) THEN Return(<<>>)
  ELSE IF node.j = "str" THEN Return(node.s)
  ELSE IF node.j # "dict" THEN Raise(AttributeError)
  ELSE IF "type" \in DOMAIN node.d /\ node.d.type = <<"text">>
       THEN Return(DictGet(node.d, "text", <<>>))
  ELSE LET content == DictGet(node.d, "content", <<>>)
           parts == [k \in DOMAIN content |-> get_text(content[k])]
       IN  IF \E k \in DOMAIN parts : ~parts[k].ok
           THEN parts[CHOOSE k \in DOMAIN parts :
                        ~parts[k].ok /\ \A m \in 1..(k-1) : parts[m].ok]
           ELSE Return(Strip(Join(<<" ">>, [k \in DOMAIN parts |-> parts[k].value])))

\* ------------------------------------------------------------------ repr
\* repr(s) of a str without backslashes or control characters: single quotes,
\* or double quotes when s holds a single quote and no double quote.
ReprStr(s) ==
  IF InList("'", s) /\ ~InList("\"", s)
  THEN <<"\"">> \o s \o <<"\"">>
  ELSE <<"'">> \o s \o <<"'">>

\* f"{available}" of a list of str: "[" + ", ".join(repr(x)) + "]"
ReprList(list) ==
  <<"[">> \o Join(<<", ">>, [k \in DOMAIN list |-> ReprStr(list[k])]) \o <<"]">>

\* ------------------------------------------------------------------ the tracker
\* The remote issue tracker, as far as the handlers can observe it.  It holds
\* one issue, DP-8, whose currently legal transitions are the variable legal;
\* DP-9 names no issue.
Transition(id, name) == [id |-> id, name |-> name]
T_Open == Transition("11", <<"O","p","e","n">>)
T_InProgress == Transition("21", <<"I","n"," ","P","r","o","g","r","e","s","s">>)
T_InReview == Transition("1", <<"I","n"," ","R","e","v","i","e","w">>)
T_Resolved == Transition("2", <<"R","e","s","o","l","v","e","d">>)
T_Done == Transition("3", <<"D","o","n","e">>)
T_Reopen == Transition("4", <<"R","e","o","p","e","n">>)
T_CLOSED == Transition("5", <<"C","L","O","S","E","D">>)
T_WontDo == Transition("6", <<"W","o","n","'","t"," ","D","o">>)
T_NotDone == Transition("7", <<"N","o","t"," ","D","o","n","e">>)

\* The transition lists DP-8 moves between under Spec: by its status.
W_Backlog == <<T_Open, T_InProgress>>
W_InProgress == <<T_InReview, T_Resolved, T_Done>>
W_Closed == <<>>
Workflows == {W_Backlog, W_InProgress, W_Closed}

\* Every transition the tracker knows, and every list of at most n of them.
AllTransitions ==
  {T_Open, T_InProgress, T_InReview, T_Resolved, T_Done, T_Reopen, T_CLOSED,
   T_WontDo, T_NotDone}
TransitionLists(n) == UNION {[1..m -> AllTransitions] : m \in 0..n}

\* The issue's legal transitions after the tracker applied transition id:
\* a closing transition leaves none, any other reopens the work.
After(id) ==
  IF id \in {"2", "3", "5"} THEN W_Closed ELSE W_InProgress

DP8 == <<"DP-8">>
DP9 == <<"DP-9">>
Keys == {DP8, DP9}

Doc_ab ==
  JDict([type |-> <<"doc">>, content |-> <<
    JDict([type |-> <<"paragraph">>, content |-> <<
      JDict([type |-> <<"text">>, text |-> <<"a">>]),
      JDict([type |-> <<"text">>, text |-> <<"b">>]) >>]) >>])
Issue8 == [key |-> DP8, fields |-> [summary |-> <<"Fix login">>, description |-> Doc_ab]]
Issue7 == [key |-> <<"DP-7">>, fields |-> [description |-> JNull]]

\* Answers any call can get whatever the tracker holds: the call times out,
\* the connection fails, the credentials are refused, or something on the way
\* answers 200 with a page that is not JSON.
Faults ==
  { TimeoutReply, NetErrorReply,
    Response(401, TextBody(<<"Unauthorized">>)),
    Response(200, TextBody(<<"<html>">>)) }

NotFoundReply == Response(404, TextBody(<<"Issue does not exist">>))

\* GET /search/jql
SearchReplies(search) ==
  Faults \cup
  { Response(200, JsonBody([issues |-> IF search.some /\ search.v # <<>>
                                       THEN <<Issue8>> ELSE <<Issue8, Issue7>>])) }

\* POST /issue/{key}/comment
CommentReplies(key) ==
  Faults \cup
  (IF key = DP8 THEN {Response(201, JsonBody([id |-> <<"10001">>]))} ELSE {NotFoundReply})

\* GET /issue/{key}/transitions
TransitionsReplies(key, current) ==
  Faults \cup
  (IF key = DP8 THEN {Response(200, JsonBody([transitions |-> current]))}
   ELSE {NotFoundReply})

\* POST /issue/{key}/transitions with {"transition": {"id": id}}: the answer,
\* and the legal transitions the issue has afterwards.  The transition is
\* applied when it is legal now; the answer then has no body, or the body {}.
ApplyReplies(key, id, current) ==
  {[reply |-> f, next |-> current] : f \in Faults} \cup
  (IF key # DP8 THEN {[reply |-> NotFoundReply, next |-> current]}
   ELSE IF \E k \in DOMAIN current : current[k].id = id
   THEN {[reply |-> Response(204, EmptyBody), next |-> After(id)],
         [reply |-> Response(200, JsonBody(EmptyDict)), next |-> After(id)]}
   ELSE {[reply |-> Response(400, TextBody(<<"Transition is not valid">>)),
          next |-> current]})

\* ------------------------------------------------------------------ handlers
VARIABLES
  legal,        \* the tracker: DP-8's legal transitions, in the tracker's order
  pc,           \* per invocation: where its handler is
  tool,         \* per invocation: the tool invoked
  params,       \* per invocation: the handler's argument
  transitions,  \* per invocation: jira_close_issue's local "transitions"
  done,         \* per invocation: jira_close_issue's local "done"
  calls,        \* per invocation: the outbound requests issued, in order
  replies,      \* per invocation: the answers received, in order
  result,       \* per invocation: what the handler returned
  raced,        \* per invocation: legal changed between its fetch and its apply
  forest,       \* SpecText: rich-text trees under construction
  extracted,    \* SpecText: get_text has been applied
  node,         \* SpecText: the tree handed to get_text
  text          \* SpecText: what get_text gave for it

vars == <<legal, pc, tool, params, transitions, done, calls, replies, result,
          raced, forest, extracted, node, text>>
handlerVars == <<legal, pc, tool, params, transitions, done, calls, replies,
                 result, raced>>
textVars == <<forest, extracted, node, text>>

Invocations == 1..NumInvocations

\* SearchInput.search: absent, empty, or a text.
Searches == {None, Some(<<>>), Some(<<"f","o","o">>)}
Comments == {<<"h","i","\"","\n">>}

GetRequest(path, query) == [method |-> "GET", path |-> path, query |-> query]
PostRequest(path, body) == [method |-> "POST", path |-> path, json |-> body]

BuildJql_if_not_none(search) ==
  IF search.some
  THEN Concat(<< <<"project = DP AND text ~ \"">>, search.v, <<"\" ORDER BY updated DESC">> >>)
  ELSE <<"project = DP ORDER BY updated DESC">>

\* "if params.search": None and "" are false.
Truthy(search) == search.some /\ search.v # <<>>

\* The jql of jira_get_issues.
BuildJql(search) ==
  IF Truthy(search)
  THEN Concat(<< <<"project = DP AND text ~ \"">>, search.v, <<"\" ORDER BY updated DESC">> >>)
  ELSE <<"project = DP ORDER BY updated DESC">>

\* The request of jira_get_issues.
SearchRequest(search) ==
  GetRequest(<<"/search/jql">>,
             [jql |-> BuildJql(search), maxResults |-> 25,
              fields |-> <<"summary,description">>])

\* The body of jira_add_comment: one paragraph holding one text run.
CommentBody(comment) ==
  [body |-> [type |-> <<"doc">>, version |-> 1,
             content |-> << [type |-> <<"paragraph">>,
                             content |-> << [type |-> <<"text">>, text |-> comment] >>] >>]]

\* The body of the apply call of jira_close_issue.
ApplyBody(t) == [transition |-> [id |-> t.id]]

\* The list comprehension of jira_get_issues over data.get("issues", []).
IssuesOf(data) ==
  LET issues == DictGet(data, "issues", <<>>)
      descr == [k \in DOMAIN issues |->
                  get_text(DictGet(issues[k].fields, "description", JNull))]
  IN  IF \E k \in DOMAIN descr : ~descr[k].ok
      THEN descr[CHOOSE k \in DOMAIN descr : ~descr[k].ok /\ \A m \in 1..(k-1) : descr[m].ok]
      ELSE Return(Json([array |->
             [k \in DOMAIN issues |->
                [key |-> issues[k].key,
                 name |-> DictGet(issues[k].fields, "summary", <<>>),
                 description |-> descr[k].value]]]))

\* The return statements of the three handlers after their last call.
IssuesResult(out) == IF out.ok THEN IssuesOf(out.value) ELSE out
CommentResult(out, key) ==
  IF out.ok
  THEN Return(Json([success |-> TRUE,
                    comment_id |-> IF "id" \in DOMAIN out.value
                                   THEN Some(out.value.id) ELSE None,
                    issue |-> key]))
  ELSE out
ClosedResult(out, key) ==
  IF out.ok THEN Return(Json([success |-> TRUE, issue |-> key, status |-> <<"Done">>]))
  ELSE out
NoTransitionResult_as_error_string(ts) ==
  Plain(<<"Error:", " ", "No 'Done' transition found. Available: ">> \o ReprList(Available(ts)))
NoTransitionResult(ts) ==
  Json([error |-> <<"No 'Done' transition found. Available: ">> \o ReprList(Available(ts))])

\* The end of a handler: it returns the value, or the except clause turns the
\* exception into handle_error's string; an exception the clause does not
\* catch leaves the handler.
Finish(i, out) ==
  IF out.ok
  THEN /\ pc' = [pc EXCEPT ![i] = "returned"]
       /\ result' = [result EXCEPT ![i] = out.value]
  ELSE IF Catches(out.exc)
  THEN /\ pc' = [pc EXCEPT ![i] = "returned"]
       /\ result' = [result EXCEPT ![i] = Plain(handle_error(out.exc))]
  ELSE /\ pc' = [pc EXCEPT ![i] = "raised"]
       /\ result' = result

Send(i, request) == calls' = [calls EXCEPT ![i] = Append(@, request)]
Receive(i, reply) == replies' = [replies EXCEPT ![i] = Append(@, reply)]

\* jira_get_issues up to its await: the query is built and the GET issued.
jira_get_issues(i) ==
  /\ pc[i] = "idle"
  /\ \E search \in Searches :
       /\ params' = [params EXCEPT ![i] = [search |-> search]]
       /\ Send(i, SearchRequest(search))
  /\ tool' = [tool EXCEPT ![i] = "jira_get_issues"]
  /\ pc' = [pc EXCEPT ![i] = "get_issues"]
  /\ UNCHANGED <<legal, transitions, done, replies, result, raced>>
  /\ UNCHANGED textVars

\* jira_get_issues from the answer of its GET to its return.
jira_get_issues_resume(i) ==
  /\ pc[i] = "get_issues"
  /\ \E reply \in SearchReplies(params[i].search) :
       /\ Receive(i, reply)
       /\ Finish(i, IssuesResult(jira_get(reply)))
  /\ UNCHANGED <<legal, tool, params, transitions, done, calls, raced>>
  /\ UNCHANGED textVars

\* jira_add_comment up to its await: the body is built and the POST issued.
jira_add_comment(i) ==
  /\ pc[i] = "idle"
  /\ \E key \in {DP8}, comment \in Comments :
       /\ params' = [params EXCEPT ![i] = [issue_key |-> key, comment |-> comment]]
       /\ Send(i, PostRequest(<<"/issue/">> \o key \o <<"/comment">>, CommentBody(comment)))
  /\ tool' = [tool EXCEPT ![i] = "jira_add_comment"]
  /\ pc' = [pc EXCEPT ![i] = "add_comment"]
  /\ UNCHANGED <<legal, transitions, done, replies, result, raced>>
  /\ UNCHANGED textVars

\* jira_add_comment from the answer of its POST to its return.
jira_add_comment_resume(i) ==
  /\ pc[i] = "add_comment"
  /\ \E reply \in CommentReplies(params[i].issue_key) :
       /\ Receive(i, reply)
       /\ Finish(i, CommentResult(jira_post(reply), params[i].issue_key))
  /\ UNCHANGED <<legal, tool, params, transitions, done, calls, raced>>
  /\ UNCHANGED textVars

\* jira_close_issue up to its first await: the GET of the transitions.
jira_close_issue(i) ==
  /\ pc[i] = "idle"
  /\ \E key \in Keys :
       /\ params' = [params EXCEPT ![i] = [issue_key |-> key]]
       /\ Send(i, GetRequest(<<"/issue/">> \o key \o <<"/transitions">>, EmptyDict))
  /\ tool' = [tool EXCEPT ![i] = "jira_close_issue"]
  /\ pc' = [pc EXCEPT ![i] = "close_fetch"]
  /\ UNCHANGED <<legal, transitions, done, replies, result, raced>>
  /\ UNCHANGED textVars

\* jira_close_issue from the answer of the GET to its second await, or to
\* its return when the GET failed or no transition matches.
jira_close_issue_fetched(i) ==
  /\ pc[i] = "close_fetch"
  /\ \E reply \in TransitionsReplies(params[i].issue_key, legal) :
       /\ Receive(i, reply)
       /\ LET out == jira_get(reply)
          IN  IF ~out.ok
              THEN /\ Finish(i, out)
                   /\ UNCHANGED <<transitions, done, calls>>
              ELSE LET ts == DictGet(out.value, "transitions", <<>>)
                       d == ClosingTransition(ts)
                   IN  /\ transitions' = [transitions EXCEPT ![i] = ts]
                       /\ done' = [done EXCEPT ![i] = d]
                       /\ IF ~d.some
                          THEN /\ Finish(i, Return(NoTransitionResult(ts)))
                               /\ UNCHANGED calls
                          ELSE /\ Send(i, PostRequest(
                                     <<"/issue/">> \o params[i].issue_key \o <<"/transitions">>,
                                     ApplyBody(d.v)))
                               /\ pc' = [pc EXCEPT ![i] = "close_apply"]
                               /\ UNCHANGED result
  /\ UNCHANGED <<legal, tool, params, raced>>
  /\ UNCHANGED textVars

\* Invocations whose apply is outstanding see the issue change under them.
Racing(i, next) ==
  [j \in Invocations |->
     IF j # i /\ pc[j] = "close_apply" /\ next # legal THEN TRUE ELSE raced[j]]

\* As jira_close_issue_applied, but a failed POST is sent once more.
jira_close_issue_applied_retry(i) ==
  /\ pc[i] = "close_apply"
  /\ \E a \in ApplyReplies(params[i].issue_key, done[i].v.id, legal) :
       /\ Receive(i, a.reply)
       /\ legal' = a.next
       /\ raced' = Racing(i, a.next)
       /\ IF ~jira_post(a.reply).ok /\ Len(calls[i]) < 3
          THEN /\ Send(i, calls[i][Len(calls[i])])
               /\ UNCHANGED <<pc, result>>
          ELSE /\ Finish(i, ClosedResult(jira_post(a.reply), params[i].issue_key))
               /\ UNCHANGED calls
  /\ UNCHANGED <<tool, params, transitions, done>>
  /\ UNCHANGED textVars

\* As jira_close_issue_applied, but a POST the tracker refuses makes the
\* handler fetch the transitions again.
jira_close_issue_applied_refetch(i) ==
  /\ pc[i] = "close_apply"
  /\ \E a \in ApplyReplies(params[i].issue_key, done[i].v.id, legal) :
       /\ Receive(i, a.reply)
       /\ legal' = a.next
       /\ raced' = Racing(i, a.next)
       /\ IF a.reply.net = "response" /\ ~IsSuccess(a.reply.status) /\ Len(calls[i]) < 3
          THEN /\ Send(i, calls[i][1])
               /\ pc' = [pc EXCEPT ![i] = "close_fetch"]
               /\ UNCHANGED result
          ELSE /\ Finish(i, ClosedResult(jira_post(a.reply), params[i].issue_key))
               /\ UNCHANGED calls
  /\ UNCHANGED <<tool, params, transitions, done>>
  /\ UNCHANGED textVars

\* jira_close_issue from the answer of the POST to its return.
jira_close_issue_applied(i) ==
  /\ pc[i] = "close_apply"
  /\ \E a \in ApplyReplies(params[i].issue_key, done[i].v.id, legal) :
       /\ Receive(i, a.reply)
       /\ legal' = a.next
       /\ raced' = Racing(i, a.next)
       /\ Finish(i, ClosedResult(jira_post(a.reply), params[i].issue_key))
  /\ UNCHANGED <<tool, params, transitions, done, calls>>
  /\ UNCHANGED textVars

\* Another actor moves the issue: its legal transitions change.
TrackerEdit ==
  /\ \E next \in Workflows \ {legal} :
       /\ legal' = next
       /\ raced' = Racing(0, next)
  /\ UNCHANGED <<pc, tool, params, transitions, done, calls, replies, result>>
  /\ UNCHANGED textVars

\* No handler has been invoked yet.
HandlersIdle ==
  /\ pc = [i \in Invocations |-> "idle"]
  /\ tool = [i \in Invocations |-> "none"]
  /\ params = [i \in Invocations |-> EmptyDict]
  /\ transitions = [i \in Invocations |-> <<>>]
  /\ done = [i \in Invocations |-> None]
  /\ calls = [i \in Invocations |-> <<>>]
  /\ replies = [i \in Invocations |-> <<>>]
  /\ result = [i \in Invocations |-> NoResult]
  /\ raced = [i \in Invocations |-> FALSE]

TextIdle ==
  /\ forest = <<>>
  /\ extracted = FALSE
  /\ node = JNull
  /\ text = Return(<<>>)

Init ==
  /\ legal \in Workflows
  /\ HandlersIdle
  /\ TextIdle

Next ==
  \/ \E i \in Invocations : jira_get_issues(i)
  \/ \E i \in Invocations : jira_get_issues_resume(i)
  \/ \E i \in Invocations : jira_add_comment(i)
  \/ \E i \in Invocations : jira_add_comment_resume(i)
  \/ \E i \in Invocations : jira_close_issue(i)
  \/ \E i \in Invocations : jira_close_issue_fetched(i)
  \/ \E i \in Invocations : jira_close_issue_applied(i)
  \/ TrackerEdit

\* Concurrent invocations of the three tools against the tracker.
Spec == Init /\ [][Next]_vars

\* ------------------------------------------------------------------ SpecClose
\* One invocation of jira_close_issue, the tracker holding any list of at
\* most MaxTransitions transitions for DP-8.
InitClose ==
  /\ legal \in TransitionLists(MaxTransitions)
  /\ HandlersIdle
  /\ TextIdle

NextClose ==
  \/ jira_close_issue(1)
  \/ jira_close_issue_fetched(1)
  \/ jira_close_issue_applied(1)

SpecClose == InitClose /\ [][NextClose]_vars

\* ------------------------------------------------------------------ SpecText
\* get_text applied to the rich-text trees of at most MaxNodes nodes.  A tree
\* is built bottom-up on a stack: leaves are pushed, and the topmost k trees
\* become the content of a new node.
TextLeaf(s) == JDict([type |-> <<"text">>, text |-> s])
Leaves ==
  { JNull,
    JStr(<<"a", " ">>),
    JDict(EmptyDict),
    JDict([type |-> <<"text">>]),
    JDict([type |-> <<"hardBreak">>]),
    TextLeaf(<<"a">>), TextLeaf(<<"b">>), TextLeaf(<<" ">>) }

\* A node with a child sequence: typed "doc", typed "paragraph", or untyped.
Containers(content) ==
  { JDict([type |-> <<"doc">>, content |-> content]),
    JDict([type |-> <<"paragraph">>, content |-> content]),
    JDict([content |-> content]) }

RECURSIVE Size(_)
RECURSIVE SizeAll(_)
Size(n) ==
  IF n.j = "dict" /\ "content" \in DOMAIN n.d THEN 1 + SizeAll(n.d.content) ELSE 1
SizeAll(ns) == IF ns = <<>> THEN 0 ELSE Size(Head(ns)) + SizeAll(Tail(ns))

PushLeaf ==
  /\ ~extracted
  /\ SizeAll(forest) < MaxNodes
  /\ \E leaf \in Leaves : forest' = Append(forest, leaf)
  /\ UNCHANGED <<extracted, node, text, handlerVars>>

Wrap ==
  /\ ~extracted
  /\ SizeAll(forest) < MaxNodes
  /\ \E k \in 0..Len(forest) :
       \E c \in Containers(SubSeq(forest, Len(forest) - k + 1, Len(forest))) :
         forest' = Append(SubSeq(forest, 1, Len(forest) - k), c)
  /\ UNCHANGED <<extracted, node, text, handlerVars>>

\* description = get_text(<the tree on top>)
Extract ==
  /\ ~extracted
  /\ forest # <<>>
  /\ node' = forest[Len(forest)]
  /\ text' = get_text(forest[Len(forest)])
  /\ extracted' = TRUE
  /\ forest' = <<>>
  /\ UNCHANGED handlerVars

InitText ==
  /\ legal = W_Closed
  /\ HandlersIdle
  /\ TextIdle

NextText == PushLeaf \/ Wrap \/ Extract

SpecText == InitText /\ [][NextText]_vars

\* ------------------------------------------------------------------ claims
\* What the claims speak of, stated from the requests issued and the
\* answers received rather than from the handlers' own definitions.
Closers == {i \in Invocations : tool[i] = "jira_close_issue"}
NonSuccess(reply) ==
  reply.net = "response" /\ (reply.status < 200 \/ reply.status > 299)
TimedOut(reply) == reply.net = "timeout"
Unparsable(reply, emptyAllowed) ==
  /\ reply.net = "response"
  /\ ~NonSuccess(reply)
  /\ reply.content.raw # "json"
  /\ ~(emptyAllowed /\ reply.content.raw = "empty")
\* The call that got this answer failed; k is its place among the calls.
CallFailed(i, k) ==
  LET reply == replies[i][k]
  IN  \/ reply.net # "response"
      \/ NonSuccess(reply)
      \/ Unparsable(reply, calls[i][k].method = "POST")
BeginsWithError(r) == r.fmt = "text" /\ Len(r.text) >= 1 /\ r.text[1] = "Error:"
IsString(r) == r.fmt \in {"json", "text"}

\* C1: in each of the three handlers, whatever call fails (a non-2xx status, a
\* timeout or any other exception, at the GET or at the POST), the invocation
\* ends by returning a string and no exception leaves the handler; after a
\* non-2xx answer the string begins with "Error:".
C1_FailuresBecomeStrings ==
  \A i \in Invocations :
    /\ pc[i] # "raised"
    /\ \A k \in DOMAIN replies[i] :
         /\ CallFailed(i, k) => pc[i] = "returned" /\ IsString(result[i])
         /\ NonSuccess(replies[i][k]) => BeginsWithError(result[i])

\* C1's case: the POST of jira_close_issue got a non-2xx answer and the handler
\* returned an "Error:" string.
C1_Witness ==
  \E i \in Closers :
    /\ Len(replies[i]) = 2
    /\ NonSuccess(replies[i][2])
    /\ pc[i] = "returned"
    /\ BeginsWithError(result[i])

\* C9: in each of the three handlers, when a call (the GET or the POST) times
\* out, the invocation returns exactly
\* "Error: Request timed out. Please try again." and issues no further call.
C9_TimeoutMessage ==
  \A i \in Invocations : \A k \in DOMAIN replies[i] :
    TimedOut(replies[i][k]) =>
      /\ pc[i] = "returned"
      /\ result[i] = Plain(<<"Error:", " Request timed out. Please try again.">>)
      /\ Len(calls[i]) = k

\* C9's case: the POST of jira_close_issue timed out.
C9_Witness ==
  \E i \in Closers :
    /\ Len(replies[i]) = 2
    /\ TimedOut(replies[i][2])
    /\ result[i].fmt = "text"

\* The jql the claim describes: all issues of the project, or those whose
\* text matches v; either way by updated, descending.
AllIssuesJql == <<"project = DP ORDER BY updated DESC">>
FilteredJql(v) == <<"project = DP AND text ~ \"">> \o v \o <<"\" ORDER BY updated DESC">>
Searchers == {i \in Invocations : tool[i] = "jira_get_issues"}
\* Invocation i issued exactly one call, the GET of the search with this jql,
\* capped at 25 results and projecting summary and description.
OneSearchFor(i, jql) ==
  /\ Len(calls[i]) = 1
  /\ calls[i][1].method = "GET"
  /\ calls[i][1].path = <<"/search/jql">>
  /\ calls[i][1].query.jql = jql
  /\ calls[i][1].query.maxResults = 25
  /\ calls[i][1].query.fields = <<"summary,description">>

\* C10 as stated: jira_get_issues issues exactly one GET whose query filters
\* on the search value whenever search is provided, and selects all issues of
\* the project when it is not; ordered by updated descending, capped at 25,
\* projecting summary and description.
C10_Original ==
  \A i \in Searchers :
    OneSearchFor(i, IF params[i].search.some
                    THEN FilteredJql(params[i].search.v) ELSE AllIssuesJql)

\* C10 as amended: the query filters on the search value when search is
\* provided and not empty, the value put between double quotes as it is; it
\* selects all issues of the project when search is absent or the empty
\* string.
C10_QueryBuilt ==
  \A i \in Searchers :
    OneSearchFor(i, IF params[i].search.some /\ params[i].search.v # <<>>
                    THEN FilteredJql(params[i].search.v) ELSE AllIssuesJql)

\* C10's case: a search for the empty string has returned, having asked for
\* all issues; and a search for "foo" has returned, having filtered.
C10_Witness ==
  \E i, j \in Searchers :
    /\ pc[i] = "returned" /\ pc[j] = "returned"
    /\ params[i].search = Some(<<>>)
    /\ calls[i][1].query.jql = AllIssuesJql
    /\ params[j].search = Some(<<"f","o","o">>)
    /\ calls[j][1].query.jql = FilteredJql(<<"f","o","o">>)

\* The list the GET of invocation i returned, when it returned one.
GotList(i) ==
  /\ Len(replies[i]) >= 1
  /\ ~CallFailed(i, 1)
  /\ "transitions" \in DOMAIN replies[i][1].content.value
ListGot(i) == replies[i][1].content.value.transitions
CountOf(i, method) == Cardinality({k \in DOMAIN calls[i] : calls[i][k].method = method})

\* C4: every jira_close_issue invocation issues at most one GET of the
\* transitions and at most one POST; the POST comes only after the GET
\* succeeded and a transition was selected, and carries that transition's id;
\* a call that failed is the invocation's last.
C4_NoRetries ==
  \A i \in Closers :
    /\ CountOf(i, "GET") <= 1 /\ CountOf(i, "POST") <= 1
    /\ Len(calls[i]) >= 1 => calls[i][1].method = "GET"
    /\ Len(calls[i]) = 2 =>
         /\ calls[i][2].method = "POST"
         /\ GotList(i)
         /\ done[i].some
         /\ \E k \in DOMAIN ListGot(i) : ListGot(i)[k] = done[i].v
         /\ calls[i][2].json = [transition |-> [id |-> done[i].v.id]]
    /\ \A k \in DOMAIN replies[i] : CallFailed(i, k) => Len(calls[i]) = k /\ pc[i] = "returned"

\* C4's case: an invocation whose POST failed has returned, and another whose
\* GET failed has returned.
C4_Witness ==
  \E i, j \in Closers :
    /\ Len(replies[i]) = 2 /\ CallFailed(i, 2) /\ pc[i] = "returned"
    /\ Len(replies[j]) = 1 /\ CallFailed(j, 1) /\ pc[j] = "returned"

SuccessResult(i) ==
  Json([success |-> TRUE, issue |-> params[i].issue_key, status |-> <<"Done">>])

\* C5: jira_close_issue returns {success: true, issue: <the key>, status:
\* "Done"} if and only if its POST was answered with a 2xx status, whatever
\* the body of the answer.
C5_SuccessIffPost2xx ==
  \A i \in Closers :
    pc[i] = "returned" =>
      ( result[i] = SuccessResult(i)
        <=> (Len(replies[i]) = 2 /\ replies[i][2].net = "response"
             /\ ~NonSuccess(replies[i][2])) )

\* C6: when the issue's legal transitions change between an invocation's
\* fetch and its apply (another invocation closed the issue, or another actor
\* edited it), the invocation neither notices nor retries: one GET, one POST
\* carrying the id chosen from the earlier fetch, no second fetch; and what it
\* returns, the success JSON or an "Error:" string, depends only on the answer
\* to that POST.
C6_RaceUndetected ==
  /\ \A i \in Closers :
       raced[i] =>
         /\ Len(calls[i]) = 2 /\ Len(replies[i]) <= 2
         /\ CountOf(i, "GET") = 1 /\ CountOf(i, "POST") = 1
         /\ GotList(i)
         /\ \E k \in DOMAIN ListGot(i) :
              calls[i][2].json = [transition |-> [id |-> ListGot(i)[k].id]]
         /\ pc[i] \in {"close_apply", "returned"}
         /\ pc[i] = "returned" =>
              result[i] = SuccessResult(i) \/ BeginsWithError(result[i])
  /\ \A i, j \in Closers :
       ( /\ pc[i] = "returned" /\ pc[j] = "returned"
         /\ Len(replies[i]) = 2 /\ Len(replies[j]) = 2
         /\ params[i] = params[j]
         /\ replies[i][2] = replies[j][2] )
       => result[i] = result[j]

\* C6's case: two invocations fetched the same transitions of DP-8; the first
\* applied its choice and succeeded; the second then posted the same, now
\* illegal, id, was refused, and returned an "Error:" string after two calls.
C6_Witness ==
  \E i, j \in Closers :
    /\ i # j
    /\ GotList(i) /\ GotList(j) /\ ListGot(i) = ListGot(j)
    /\ pc[i] = "returned" /\ result[i] = SuccessResult(i)
    /\ raced[j] /\ pc[j] = "returned"
    /\ calls[j][2].json = calls[i][2].json
    /\ Len(replies[j]) = 2 /\ replies[j][2].net = "response" /\ replies[j][2].status = 400
    /\ BeginsWithError(result[j])

\* "compared case-insensitively, equals": same length, and at each place the
\* same character or the two cases of one letter.
SameLetter(c, d) ==
  c = d \/ \E n \in DOMAIN Uppers : {c, d} = {Uppers[n], Lowers[n]}
EqualsIgnoringCase(a, b) ==
  Len(a) = Len(b) /\ \A k \in DOMAIN a : SameLetter(a[k], b[k])
ClosingWords ==
  { <<"d","o","n","e">>, <<"c","l","o","s","e","d">>, <<"r","e","s","o","l","v","e","d">> }
NameCloses(name) == \E w \in ClosingWords : EqualsIgnoringCase(name, w)
Matches(ts) == {k \in DOMAIN ts : NameCloses(ts[k].name)}
Least(S) == CHOOSE k \in S : \A m \in S : k <= m

\* C2: from the transitions in the order the tracker returned them, the close
\* workflow selects the first whose name equals "done", "closed" or
\* "resolved" ignoring case (the whole name, not a part of it), and posts
\* that one's id; it selects none when no name does.
C2_FirstMatchSelected ==
  \A i \in Closers :
    GotList(i) =>
      LET ts == ListGot(i)
      IN  IF Matches(ts) = {}
          THEN ~done[i].some /\ Len(calls[i]) = 1
          ELSE /\ done[i] = Some(ts[Least(Matches(ts))])
               /\ Len(calls[i]) = 2
               /\ calls[i][2].json = [transition |-> [id |-> ts[Least(Matches(ts))].id]]

\* C2's case: the tracker returned In Review (1), Resolved (2), Done (3) and
\* the invocation posted id 2.
C2_Witness ==
  \E i \in Closers :
    /\ GotList(i)
    /\ ListGot(i) = <<T_InReview, T_Resolved, T_Done>>
    /\ done[i].some /\ done[i].v.id = "2"
    /\ Len(calls[i]) = 2 /\ calls[i][2].json.transition.id = "2"

\* The names an error text lists: what stands between "[" and the closing
\* "]", split at ", ", each item without its quotes.
ListPart(s) ==
  LET open == CHOOSE k \in DOMAIN s : s[k] = "[" /\ \A m \in 1..(k-1) : s[m] # "["
  IN  SubSeq(s, open + 1, Len(s) - 1)
RECURSIVE SplitItems(_)
SplitItems(s) ==
  IF s = <<>> THEN <<>>
  ELSE IF \A k \in DOMAIN s : s[k] # ", " THEN <<s>>
  ELSE LET c == CHOOSE k \in DOMAIN s : s[k] = ", " /\ \A m \in 1..(k-1) : s[m] # ", "
       IN  <<SubSeq(s, 1, c - 1)>> \o SplitItems(SubSeq(s, c + 1, Len(s)))
NamesListed(s) ==
  LET items == SplitItems(ListPart(s))
  IN  [k \in DOMAIN items |-> SubSeq(items[k], 2, Len(items[k]) - 1)]

\* C3: when no name in the fetched list (the empty list included) closes,
\* jira_close_issue issues no POST and returns a JSON object whose one field
\* "error" lists every available transition name in the tracker's order; it
\* returns no "Error:" string and raises nothing.
C3_NoMatchReported ==
  \A i \in Closers :
    (GotList(i) /\ Matches(ListGot(i)) = {}) =>
      /\ pc[i] = "returned"
      /\ Len(calls[i]) = 1 /\ CountOf(i, "POST") = 0
      /\ result[i].fmt = "json"
      /\ DOMAIN result[i].obj = {"error"}
      /\ result[i].obj.error[Len(result[i].obj.error)] = "]"
      /\ Len(NamesListed(result[i].obj.error)) = Len(ListGot(i))
      /\ \A k \in DOMAIN ListGot(i) :
           NamesListed(result[i].obj.error)[k] = ListGot(i)[k].name

\* C3's case: the tracker returned Open, In Progress and the invocation
\* reported both names, in that order, without posting.
C3_Witness ==
  \E i \in Closers :
    /\ GotList(i)
    /\ ListGot(i) = <<T_Open, T_InProgress>>
    /\ pc[i] = "returned"
    /\ result[i].fmt = "json"
    /\ NamesListed(result[i].obj.error) = <<T_Open.name, T_InProgress.name>>
    /\ Len(calls[i]) = 1

\* C7: on every finite rich-text tree (null nodes, nodes with an unrecognized
\* tag, nodes without a child sequence and text leaves without a text field
\* included) get_text ends, returns a string and raises nothing.
C7_GetTextTotal ==
  extracted => text.ok /\ text.value \in Seq(STRING)

RECURSIVE Holds(_, _)
\* The tree n holds the node m, at any depth.
Holds(n, m) ==
  \/ n = m
  \/ /\ n.j = "dict"
     /\ "content" \in DOMAIN n.d
     /\ \E k \in DOMAIN n.d.content : Holds(n.d.content[k], m)

\* C7's case: get_text returned for a tree that holds a null node, a node
\* with an unrecognized tag and no children, and a text leaf without text.
C7_Witness ==
  /\ extracted
  /\ text.ok
  /\ node.j = "dict"
  /\ Holds(node, JNull)
  /\ Holds(node, JDict([type |-> <<"hardBreak">>]))
  /\ Holds(node, JDict([type |-> <<"text">>]))

\* The extractor of the specification: null gives ""; a string gives itself;
\* a node tagged "text" gives its text field, "" without one; any other node
\* gives the extractions of its children, in order, joined by one space and
\* trimmed.
RECURSIVE extract(_)
extract(n) ==
  CASE n.j = "null" -> <<>>
    [] n.j = "str" -> n.s
    [] n.j = "dict" ->
         IF "type" \in DOMAIN n.d /\ n.d.type = <<"text">>
         THEN (IF "text" \in DOMAIN n.d THEN n.d.text ELSE <<>>)
         ELSE LET children == IF "content" \in DOMAIN n.d THEN n.d.content ELSE <<>>
              IN  Strip(Join(<<" ">>, [k \in DOMAIN children |-> extract(children[k])]))

\* C8: get_text gives what the specification's extractor gives, on every
\* tree of the bound.
C8_GetTextIsExtract ==
  extracted => text = Return(extract(node))

\* C8's case: the doc with one paragraph holding the text runs "a" and "b"
\* gave "a b".
C8_Witness ==
  /\ extracted
  /\ node = Doc_ab
  /\ text = Return(<<"a", " ", "b">>)

====
